---------------------------- MODULE Spec2Model ----------------------------
(***************************************************************************)
(* yamllint rule "document-start" (yamllint/rules/document_start.py).      *)
(*                                                                         *)
(* The rule is the generator check(conf, token, prev, next, nextnext,      *)
(* context).  It is modelled as the operator check, which returns the      *)
(* sequence of LintProblems the generator yields, in yield order.          *)
(*                                                                         *)
(* Two drivers apply it:                                                   *)
(*   - CallCheck applies check to an arbitrary window and configuration    *)
(*     drawn from bounded sets (the rule as a function of its arguments);  *)
(*   - Scan / Lint / Rerun feed it a token stream one token at a time, the *)
(*     way the linter's token loop does, twice over the same stream.       *)
(***************************************************************************)
EXTENDS Integers, Sequences, FiniteSets, TLC

(***************************************************************************)
(* Bounds of the model.                                                    *)
(***************************************************************************)
MaxLine == 2
MaxColumn == 1
MaxEmptyLines == 0
MaxTokens == 4

(***************************************************************************)
(* Rule constants, document_start.py:84-91.                                *)
(***************************************************************************)
ID == "document-start"
TYPE == "token"

Conf(p, mx, mn) ==
    ("present" :> p) @@ ("max-empty-lines-after" :> mx)
                     @@ ("min-empty-lines-after" :> mn)

DEFAULT == Conf(TRUE, -1, 0)

\* CONF types the options as bool, int, int; the integers are bounded here.
CONF ==
    { Conf(p, mx, mn) : p \in BOOLEAN,
                        mx \in -1..MaxEmptyLines,
                        mn \in 0..(MaxEmptyLines + 2) }

(***************************************************************************)
(* Tokens.  A token has a kind (its yaml class) and a start_mark with a    *)
(* 0-indexed line and column.  ScalarToken stands for every token class    *)
(* the rule does not name.  None is the absent token.                      *)
(***************************************************************************)
TokenKinds ==
    { "StreamStartToken", "StreamEndToken", "DocumentStartToken",
      "DocumentEndToken", "DirectiveToken", "ScalarToken" }

Token(k, l, c) == [kind |-> k, start_mark |-> [line |-> l, column |-> c]]

None == [kind |-> "None"]

Tokens == { Token(k, l, c) : k \in TokenKinds, l \in 0..MaxLine, c \in 0..MaxColumn }

isinstance(tok, kinds) == tok.kind \in kinds

LintProblem(line, column, desc) ==
    [line |-> line, column |-> column, desc |-> desc, rule |-> ID]

MISSING == "missing document start \"---\""
TOO_MANY == "too many empty lines after document start"
TOO_FEW == "too few empty lines after document start"
FORBIDDEN == "found forbidden document start \"---\""

(***************************************************************************)
(* check, document_start.py:94-124, split at its four yield statements.    *)
(***************************************************************************)

\* Variants of the definitions below, each with one plausible slip.  They are
\* used only to show that the properties at the end depend on the rule.
MissingDocumentStart_AtTokenColumn(token, prev) ==
    IF /\ isinstance(prev, {"StreamStartToken", "DocumentEndToken", "DirectiveToken"})
       /\ ~ isinstance(token, {"DocumentStartToken", "DirectiveToken", "StreamEndToken"})
    THEN << LintProblem(token.start_mark.line + 1, token.start_mark.column + 1, MISSING) >>
    ELSE << >>

MissingDocumentStart_NotAfterStreamStart(token, prev) ==
    IF /\ isinstance(prev, {"DocumentEndToken", "DirectiveToken"})
       /\ ~ isinstance(token, {"DocumentStartToken", "DirectiveToken", "StreamEndToken"})
    THEN << LintProblem(token.start_mark.line + 1, 1, MISSING) >>
    ELSE << >>

MissingDocumentStart_FlagsDirective(token, prev) ==
    IF /\ isinstance(prev, {"StreamStartToken", "DocumentEndToken", "DirectiveToken"})
       /\ ~ isinstance(token, {"DocumentStartToken", "StreamEndToken"})
    THEN << LintProblem(token.start_mark.line + 1, 1, MISSING) >>
    ELSE << >>

\* lines 96-103
MissingDocumentStart(token, prev) ==
    IF /\ isinstance(prev, {"StreamStartToken", "DocumentEndToken", "DirectiveToken"})
       /\ ~ isinstance(token, {"DocumentStartToken", "DirectiveToken", "StreamEndToken"})
    THEN << LintProblem(token.start_mark.line + 1, 1, MISSING) >>
    ELSE << >>

empty_lines_Clamped(token, prev) ==
    IF token.start_mark.line - prev.start_mark.line - 1 < 0
    THEN 0
    ELSE token.start_mark.line - prev.start_mark.line - 1

\* line 106
empty_lines(token, prev) == token.start_mark.line - prev.start_mark.line - 1

TooManyEmptyLines_NoUnlimited(conf, token, prev) ==
    IF empty_lines(token, prev) > conf["max-empty-lines-after"]
    THEN << LintProblem(token.start_mark.line + 1, token.start_mark.column + 1, TOO_MANY) >>
    ELSE << >>

\* lines 108-112
TooManyEmptyLines(conf, token, prev) ==
    IF /\ conf["max-empty-lines-after"] >= 0
       /\ empty_lines(token, prev) > conf["max-empty-lines-after"]
    THEN << LintProblem(token.start_mark.line + 1, token.start_mark.column + 1, TOO_MANY) >>
    ELSE << >>

TooFewEmptyLines_AtMarkerLine(conf, token, prev) ==
    IF /\ conf["min-empty-lines-after"] > 0
       /\ empty_lines(token, prev) < conf["min-empty-lines-after"]
    THEN << LintProblem(prev.start_mark.line + 1, token.start_mark.column + 1, TOO_FEW) >>
    ELSE << >>

\* lines 114-118
TooFewEmptyLines(conf, token, prev) ==
    IF /\ conf["min-empty-lines-after"] > 0
       /\ empty_lines(token, prev) < conf["min-empty-lines-after"]
    THEN << LintProblem(token.start_mark.line + 1, token.start_mark.column + 1, TOO_FEW) >>
    ELSE << >>

EmptyLinesAfter_AlsoAfterDocumentEnd(conf, token, prev) ==
    IF isinstance(prev, {"DocumentStartToken", "DocumentEndToken"})
    THEN TooManyEmptyLines(conf, token, prev) \o TooFewEmptyLines(conf, token, prev)
    ELSE << >>

EmptyLinesAfter_TooFewFirst(conf, token, prev) ==
    IF isinstance(prev, {"DocumentStartToken"})
    THEN TooFewEmptyLines(conf, token, prev) \o TooManyEmptyLines(conf, token, prev)
    ELSE << >>

\* lines 105-118
EmptyLinesAfter(conf, token, prev) ==
    IF isinstance(prev, {"DocumentStartToken"})
    THEN TooManyEmptyLines(conf, token, prev) \o TooFewEmptyLines(conf, token, prev)
    ELSE << >>

\* lines 120-124
ForbiddenDocumentStart(token) ==
    IF isinstance(token, {"DocumentStartToken"})
    THEN << LintProblem(token.start_mark.line + 1, token.start_mark.column + 1, FORBIDDEN) >>
    ELSE << >>

check_EmptyLinesWhenForbidden(conf, token, prev, next, nextnext, context) ==
    IF conf["present"]
    THEN MissingDocumentStart(token, prev) \o EmptyLinesAfter(conf, token, prev)
    ELSE ForbiddenDocumentStart(token) \o EmptyLinesAfter(conf, token, prev)

check_PeeksAtNext(conf, token, prev, next, nextnext, context) ==
    IF conf["present"]
    THEN IF isinstance(next, {"DocumentStartToken"})
         THEN EmptyLinesAfter(conf, token, prev)
         ELSE MissingDocumentStart(token, prev) \o EmptyLinesAfter(conf, token, prev)
    ELSE ForbiddenDocumentStart(token)

\* lines 94-124
check(conf, token, prev, next, nextnext, context) ==
    IF conf["present"]
    THEN MissingDocumentStart(token, prev) \o EmptyLinesAfter(conf, token, prev)
    ELSE ForbiddenDocumentStart(token)

(***************************************************************************)
(* State.                                                                  *)
(***************************************************************************)
VARIABLES
    pc,        \* "call", "called": one call; "scan", "lint", "done": a stream pass
    conf,      \* the rule's configuration, fixed for the run
    stream,    \* the token stream of the pass
    idx,       \* index in stream of the next token to check
    run,       \* 1 or 2: which pass over the stream
    args,      \* <<token, prev, next, nextnext, context>> of the last call
    out,       \* the problems the last call yielded
    problems,  \* the problems of the current pass, concatenated
    first      \* the problems of the first pass, once it is complete

vars == << pc, conf, stream, idx, run, args, out, problems, first >>

token == args[1]
prev == args[2]
next == args[3]
nextnext == args[4]
context == args[5]

Contexts == { {}, {"seen"} }

Init ==
    /\ pc \in {"call", "scan"}
    /\ conf \in CONF
    /\ stream = << >>
    /\ idx = 1
    /\ run = 1
    /\ args = << None, None, None, None, {} >>
    /\ out = << >>
    /\ problems = << >>
    /\ first = << >>

(***************************************************************************)
(* One call of check on an arbitrary window.                               *)
(***************************************************************************)
Lookahead ==
    { << None, None >>,
      << Token("DocumentStartToken", MaxLine, 0), Token("ScalarToken", MaxLine, MaxColumn) >> }

CallCheck ==
    /\ pc = "call"
    /\ \E t \in Tokens, p \in Tokens \cup {None}, la \in Lookahead, ctx \in Contexts :
          /\ args' = << t, p, la[1], la[2], ctx >>
          /\ out' = check(conf, t, p, la[1], la[2], ctx)
    /\ pc' = "called"
    /\ UNCHANGED << conf, stream, idx, run, problems, first >>

(***************************************************************************)
(* The token stream: StreamStart at (0, 0), then tokens in position order, *)
(* then StreamEnd.  Markers and directives start in column 0 and take up   *)
(* columns, so a token on the same line starts further right.              *)
(***************************************************************************)
InnerKinds ==
    { "DocumentStartToken", "DocumentEndToken", "DirectiveToken", "ScalarToken" }

Follows(t, last) ==
    /\ t.start_mark.line >= last.start_mark.line
    /\ t.start_mark.line = last.start_mark.line
          => t.start_mark.column >= last.start_mark.column
    /\ t.kind \in {"DocumentStartToken", "DocumentEndToken", "DirectiveToken"}
          => t.start_mark.column = 0
    /\ ( /\ last.kind \in {"DocumentStartToken", "DocumentEndToken", "DirectiveToken"}
         /\ t.start_mark.line = last.start_mark.line )
          => t.start_mark.column > last.start_mark.column

Scan ==
    /\ pc = "scan"
    /\ \/ /\ stream = << >>
          /\ stream' = << Token("StreamStartToken", 0, 0) >>
          /\ pc' = pc
       \/ /\ stream # << >>
          /\ Len(stream) < MaxTokens - 1
          /\ \E t \in Tokens :
                /\ t.kind \in InnerKinds
                /\ Follows(t, stream[Len(stream)])
                /\ stream' = Append(stream, t)
          /\ pc' = pc
       \/ /\ stream # << >>
          /\ \E t \in Tokens :
                /\ t.kind = "StreamEndToken"
                /\ Follows(t, stream[Len(stream)])
                /\ stream' = Append(stream, t)
          /\ pc' = "lint"
    /\ UNCHANGED << conf, idx, run, args, out, problems, first >>

At(i) == IF i \in 1..Len(stream) THEN stream[i] ELSE None

\* The linter's token loop: one call of check per token, with its window.
Lint ==
    /\ pc = "lint"
    /\ idx <= Len(stream)
    /\ args' = << At(idx), At(idx - 1), At(idx + 1), At(idx + 2), {} >>
    /\ out' = check(conf, At(idx), At(idx - 1), At(idx + 1), At(idx + 2), {})
    /\ problems' = problems \o out'
    /\ idx' = idx + 1
    /\ UNCHANGED << pc, conf, stream, run, first >>

\* The same stream and configuration are linted a second time.
Rerun ==
    /\ pc = "lint"
    /\ idx > Len(stream)
    /\ run = 1
    /\ first' = problems
    /\ problems' = << >>
    /\ idx' = 1
    /\ run' = 2
    /\ args' = << None, None, None, None, {} >>
    /\ out' = << >>
    /\ UNCHANGED << pc, conf, stream >>

Finish ==
    /\ pc = "lint"
    /\ idx > Len(stream)
    /\ run = 2
    /\ pc' = "done"
    /\ UNCHANGED << conf, stream, idx, run, args, out, problems, first >>

Next == CallCheck \/ Scan \/ Lint \/ Rerun \/ Finish

Spec == Init /\ [][Next]_vars

(***************************************************************************)
(* Properties.                                                             *)
(***************************************************************************)

\* A call of check has been made and args, out describe it.
Called == token # None

Has(d) == \E k \in 1..Len(out) : out[k].desc = d

Count(d) == Cardinality({ k \in 1..Len(out) : out[k].desc = d })

\* The pass over the stream has checked every token.
PassComplete == pc \in {"lint", "done"} /\ idx > Len(stream)

\* C1: with present = true, a "missing document start" problem is yielded
\* if and only if prev is a StreamStart, DocumentEnd or Directive token and
\* token is none of DocumentStart, Directive, StreamEnd; it is then yielded
\* once, at (token line + 1, 1) whatever the token's column; never when prev
\* is absent or token is StreamEnd.
C1_MissingIff ==
    (Called /\ conf["present"]) =>
        /\ Has(MISSING) <=>
              ( /\ prev # None
                /\ prev.kind \in {"StreamStartToken", "DocumentEndToken", "DirectiveToken"}
                /\ token.kind \notin {"DocumentStartToken", "DirectiveToken", "StreamEndToken"} )
        /\ Count(MISSING) <= 1
        /\ \A k \in 1..Len(out) :
              out[k].desc = MISSING =>
                  /\ out[k].line = token.start_mark.line + 1
                  /\ out[k].column = 1
        /\ prev = None => ~ Has(MISSING)
        /\ token.kind = "StreamEndToken" => ~ Has(MISSING)

C1_Witness ==
    /\ pc = "called"
    /\ conf["present"]
    /\ prev.kind = "DocumentEndToken"
    /\ token.start_mark.column > 0
    /\ Count(MISSING) = 1

\* C2: with present = true and prev a DocumentStart token, with
\* gap = token line - prev line - 1: "too many empty lines" is yielded iff
\* max-empty-lines-after >= 0 and gap > max-empty-lines-after; "too few
\* empty lines" iff min-empty-lines-after > 0 and gap < min-empty-lines-after;
\* both at (token line + 1, token column + 1).  With max-empty-lines-after
\* = -1 there is no "too many"; when prev is not DocumentStart, neither.
C2_EmptyLinesIff ==
    (Called /\ conf["present"]) =>
        IF prev.kind = "DocumentStartToken"
        THEN LET gap == token.start_mark.line - prev.start_mark.line - 1
                 mx == conf["max-empty-lines-after"]
                 mn == conf["min-empty-lines-after"]
             IN  /\ Has(TOO_MANY) <=> (mx >= 0 /\ gap > mx)
                 /\ Has(TOO_FEW) <=> (mn > 0 /\ gap < mn)
                 /\ mx = -1 => ~ Has(TOO_MANY)
                 /\ \A k \in 1..Len(out) :
                       out[k].desc \in {TOO_MANY, TOO_FEW} =>
                           /\ out[k].line = token.start_mark.line + 1
                           /\ out[k].column = token.start_mark.column + 1
        ELSE ~ Has(TOO_MANY) /\ ~ Has(TOO_FEW)

C2_Witness ==
    /\ Called
    /\ conf["present"]
    /\ prev.kind = "DocumentStartToken"
    /\ conf["max-empty-lines-after"] = 0
    /\ token.start_mark.line = prev.start_mark.line + 2
    /\ Has(TOO_MANY)

\* C3: with present = false a call yields exactly one "found forbidden
\* document start" problem at (token line + 1, token column + 1) when token
\* is a DocumentStart token and nothing otherwise, whatever prev and the
\* empty-lines options are; a complete pass yields one problem per
\* DocumentStart token of the stream and no other.
C3_ForbiddenOnly ==
    /\ (Called /\ ~ conf["present"]) =>
          out = IF token.kind = "DocumentStartToken"
                THEN << [ line |-> token.start_mark.line + 1,
                          column |-> token.start_mark.column + 1,
                          desc |-> FORBIDDEN,
                          rule |-> "document-start" ] >>
                ELSE << >>
    /\ (PassComplete /\ ~ conf["present"]) =>
          /\ Len(problems) =
                Cardinality({ i \in 1..Len(stream) : stream[i].kind = "DocumentStartToken" })
          /\ \A k \in 1..Len(problems) : problems[k].desc = FORBIDDEN

C3_Witness ==
    /\ pc = "done"
    /\ ~ conf["present"]
    /\ conf["min-empty-lines-after"] > 0
    /\ Len(problems) = 2

\* C4: a call yields at most two problems.  Two are yielded only when
\* present = true, prev is a DocumentStart token and min-empty-lines-after >
\* max-empty-lines-after >= 0, and they are "too many" and "too few"; a
\* "missing document start" never comes with a "too many" or a "too few".
C4_AtMostTwo ==
    Called =>
        /\ Len(out) <= 2
        /\ Len(out) = 2 =>
              /\ conf["present"]
              /\ prev.kind = "DocumentStartToken"
              /\ conf["min-empty-lines-after"] > conf["max-empty-lines-after"]
              /\ conf["max-empty-lines-after"] >= 0
              /\ { out[1].desc, out[2].desc } = { TOO_MANY, TOO_FEW }
        /\ ~ (Has(MISSING) /\ (Has(TOO_MANY) \/ Has(TOO_FEW)))

C4_Witness ==
    /\ Called
    /\ Len(out) = 2

\* The tokens of the stream at which a document begins without its marker:
\* the token follows StreamStart, DocumentEnd or a Directive and is neither
\* a DocumentStart, nor a Directive, nor the StreamEnd.
Unmarked ==
    { i \in 2..Len(stream) :
        /\ stream[i - 1].kind \in {"StreamStartToken", "DocumentEndToken", "DirectiveToken"}
        /\ stream[i].kind \notin {"DocumentStartToken", "DirectiveToken", "StreamEndToken"} }

\* The elements of the set of indices S, in increasing order.
RECURSIVE Ascending(_)
Ascending(S) ==
    IF S = {} THEN << >>
    ELSE LET m == CHOOSE x \in S : \A y \in S : x <= y
         IN  << m >> \o Ascending(S \ {m})

\* C5: a complete pass under the default configuration yields exactly one
\* "missing document start" problem for each document that begins without
\* its marker, in stream order, on that document's first token's line + 1,
\* and no other problem; a stream whose documents all begin with a
\* DocumentStart marker yields none.
C5_DefaultPass ==
    (PassComplete /\ conf = DEFAULT) =>
        LET at == Ascending(Unmarked)
        IN  /\ Len(problems) = Len(at)
            /\ \A k \in 1..Len(problems) :
                  /\ problems[k].desc = MISSING
                  /\ problems[k].line = stream[at[k]].start_mark.line + 1
            /\ Unmarked = {} => problems = << >>

C5_Witness ==
    /\ PassComplete
    /\ conf = DEFAULT
    /\ stream[2].kind = "ScalarToken"
    /\ stream[3].kind = "DocumentStartToken"
    /\ Len(problems) = 1

\* Tokens 2..j of the stream are all Directive tokens (token 1 is StreamStart).
DirectivesUpTo(j) == \A k \in 2..j : stream[k].kind = "DirectiveToken"

\* C6: with present = true, while the pass is in a prefix StreamStart,
\* Directive (one or more), X: a call on a Directive yields nothing, and the
\* call on X yields exactly one "missing document start" problem, the only
\* one so far, when X is neither DocumentStart nor StreamEnd, and nothing
\* when it is.
C6_DirectivePrefix ==
    (pc \in {"lint", "done"} /\ Called /\ conf["present"]) =>
        LET j == idx - 1
        IN  /\ (j >= 2 /\ DirectivesUpTo(j)) => (out = << >> /\ problems = << >>)
            /\ (j >= 3 /\ DirectivesUpTo(j - 1) /\ stream[j].kind # "DirectiveToken") =>
                  IF stream[j].kind \in {"DocumentStartToken", "StreamEndToken"}
                  THEN out = << >> /\ problems = << >>
                  ELSE /\ Len(out) = 1
                       /\ out[1].desc = MISSING
                       /\ out[1].line = stream[j].start_mark.line + 1
                       /\ problems = out

C6_Witness ==
    /\ pc = "lint"
    /\ conf["present"]
    /\ idx = 4
    /\ stream[2].kind = "DirectiveToken"
    /\ stream[3].kind = "ScalarToken"
    /\ Len(problems) = 1

\* Other values the unused arguments of a call could have had.
OtherLookahead ==
    { << None, None >>,
      << Token("DocumentStartToken", 0, 0), None >>,
      << Token("StreamEndToken", MaxLine, MaxColumn), Token("DocumentStartToken", 0, 0) >> }

C8_OneIndexed ==
    Called =>
        \A k \in 1..Len(out) :
            /\ out[k].line = token.start_mark.line + 1
            /\ out[k].line >= 1
            /\ out[k].column >= 1
            /\ out[k].desc \in {TOO_MANY, TOO_FEW, FORBIDDEN} =>
                  out[k].column = token.start_mark.column + 1

C8_Witness ==
    /\ Called
    /\ prev # None
    /\ prev.kind = "DocumentStartToken"
    /\ token.start_mark.line > prev.start_mark.line
    /\ token.start_mark.column > 0
    /\ Has(TOO_FEW)

\* C9: over a pass the problems come in stream order: their lines never
\* decrease, and a call that yields both empty-lines problems yields "too
\* many" before "too few".
C9_StreamOrder ==
    /\ pc \in {"lint", "done"} =>
          \A a \in 1..Len(problems), b \in 1..Len(problems) :
              a < b => problems[a].line <= problems[b].line
    /\ (Called /\ Has(TOO_MANY) /\ Has(TOO_FEW)) =>
          /\ out[1].desc = TOO_MANY
          /\ out[2].desc = TOO_FEW

C9_Witness ==
    /\ pc = "lint"
    /\ PassComplete
    /\ Len(problems) = 2
    /\ problems[1].desc = TOO_MANY
    /\ problems[2].desc = TOO_FEW

\* C10: when token starts on the line of the DocumentStart token before it,
\* empty_lines is -1; with present = true, "too few empty lines" is then
\* yielded for every min-empty-lines-after >= 1 and "too many" for no
\* max-empty-lines-after >= 0.  The empty-lines checks do not look at the
\* kind of the token after DocumentStart: a StreamEnd, DocumentEnd or
\* DocumentStart token gets the problems any other token would get there.
C10_SameLineGap ==
    (Called /\ conf["present"] /\ prev.kind = "DocumentStartToken") =>
        /\ token.start_mark.line = prev.start_mark.line =>
              /\ empty_lines(token, prev) = -1
              /\ conf["min-empty-lines-after"] >= 1 => Has(TOO_FEW)
              /\ conf["max-empty-lines-after"] >= 0 => ~ Has(TOO_MANY)
        /\ token.kind \in {"StreamEndToken", "DocumentEndToken", "DocumentStartToken"} =>
              out = check(conf, [token EXCEPT !.kind = "ScalarToken"], prev,
                          next, nextnext, context)

C10_Witness ==
    /\ pc = "lint"
    /\ conf["present"]
    /\ prev.kind = "DocumentStartToken"
    /\ token.kind = "StreamEndToken"
    /\ token.start_mark.line = prev.start_mark.line
    /\ Has(TOO_FEW)

=============================================================================
